---- MODULE Spec2Model ----
(***************************************************************************)
(* Model of utm.py: the TuringMachine.run loop, parse_tape and             *)
(* tape_to_string.  One engine (utm) is shared by two run calls, each on   *)
(* its own tape, interleaved at the granularity of loop iterations.        *)
(* Python strings are TLA+ strings; a tape is a function from the occupied *)
(* integer positions to symbols (the dict of the source).                  *)
(***************************************************************************)
EXTENDS Integers, Sequences, FiniteSets, TLC

VARIABLES utm, input_str, max_steps, trace, tape, head, state, steps, pc, stdout,
          report

vars == <<utm, input_str, max_steps, trace, tape, head, state, steps, pc, stdout,
          report>>

\* ---------------------------------------------------------------- bounds
MaxLen == 2        \* longest input string given to a generic machine
MaxBudget == 3     \* largest max_steps given to a generic machine
MaxUnary == 3      \* longest unary input 1^n given to a catalogue machine
MaxPairLen == 1    \* longest input string of two interleaved calls
MaxPairBudget == 2 \* largest max_steps of two interleaved calls

Runs == {1, 2}

\* ------------------------------------------------------- tape dictionary
EmptyTape == [i \in {} |-> ""]

\* tape.get(head, blank)
tape_get(t, p, blank) == IF p \in DOMAIN t THEN t[p] ELSE blank

\* mutant: the entry is left in place
tape_pop_Keeps(t, p) == t

\* tape.pop(head, None)
tape_pop(t, p) == [i \in (DOMAIN t) \ {p} |-> t[i]]

\* tape[head] = write_symbol
tape_set(t, p, sym) == [i \in (DOMAIN t) \cup {p} |-> IF i = p THEN sym ELSE t[i]]

\* mutant: blank is stored like any other symbol
Write_StoresBlank(t, p, write_symbol, blank) == tape_set(t, p, write_symbol)

\* the write of run: blank is represented by removing the entry
Write(t, p, write_symbol, blank) ==
    IF write_symbol = blank THEN tape_pop(t, p) ELSE tape_set(t, p, write_symbol)

\* mutant: the directions are swapped
Move_Swapped(h, move) ==
    IF move = "L" THEN h + 1
    ELSE IF move = "R" THEN h - 1
    ELSE h

\* the head move of run: 'L', 'R', anything else stays
Move(h, move) ==
    IF move = "L" THEN h - 1
    ELSE IF move = "R" THEN h + 1
    ELSE h

\* key = f"{state}:{symbol}"
Key(st, symbol) == st \o ":" \o symbol

\* character i (0-based) of a Python string
CharAt(s, i) == SubSeq(s, i + 1, i + 1)

parse_tape(s, blank) ==
    [i \in {j \in 0 .. (Len(s) - 1) : CharAt(s, j) # blank} |-> CharAt(s, i)]

SetMin(S) == CHOOSE x \in S : \A y \in S : x <= y
SetMax(S) == CHOOSE x \in S : \A y \in S : x >= y

RECURSIVE JoinRange_SkipsGaps(_, _, _, _)
\* mutant: only the occupied positions are joined, gaps are not filled
JoinRange_SkipsGaps(t, blank, lo, hi) ==
    IF lo > hi THEN ""
    ELSE (IF lo \in DOMAIN t THEN t[lo] ELSE "") \o
         JoinRange_SkipsGaps(t, blank, lo + 1, hi)

RECURSIVE JoinRange(_, _, _, _)
\* ''.join(tape.get(i, blank) for i in range(lo, hi + 1))
JoinRange(t, blank, lo, hi) ==
    IF lo > hi THEN ""
    ELSE tape_get(t, lo, blank) \o JoinRange(t, blank, lo + 1, hi)

\* mutant: range(min_pos, max_pos) leaves out the last occupied position
tape_to_string_ExclusiveEnd(t, blank) ==
    IF DOMAIN t = {} THEN ""
    ELSE JoinRange(t, blank, SetMin(DOMAIN t), SetMax(DOMAIN t) - 1)

tape_to_string(t, blank) ==
    IF DOMAIN t = {} THEN ""
    ELSE JoinRange(t, blank, SetMin(DOMAIN t), SetMax(DOMAIN t))

\* ---------------------------------------------------- machine descriptions
States == {"add", "done"}
Symbols == {"1", "B"}
Directions == {"L", "R", "S"}

Targets == States \X Symbols \X Directions

\* every transition table whose keys are those of one state q
TablesOf(q) ==
    UNION {[K -> Targets] : K \in SUBSET {Key(q, a) : a \in Symbols}}

RECURSIVE Strings(_)
\* the strings over Symbols of length at most n
Strings(n) ==
    IF n = 0 THEN {""}
    ELSE LET shorter == Strings(n - 1)
         IN  shorter \cup {s \o a : s \in shorter, a \in Symbols}

RECURSIVE Ones(_)
Ones(n) == IF n = 0 THEN "" ELSE "1" \o Ones(n - 1)

\* machines/incrementer.json of the module docstring
Incrementer ==
    [blank |-> "B", start |-> "add", halt |-> "done",
     transitions |-> (Key("add", "1") :> <<"add", "1", "R">>) @@
                     (Key("add", "B") :> <<"done", "1", "S">>)]

\* a machine that moves right forever over blanks
Looper ==
    [blank |-> "B", start |-> "loop", halt |-> "done",
     transitions |-> (Key("loop", "B") :> <<"loop", "B", "R">>)]

\* a machine with two working states: erases a 1, steps left, marks, comes back
Shuttle ==
    [blank |-> "B", start |-> "go", halt |-> "done",
     transitions |-> (Key("go", "1") :> <<"back", "B", "L">>) @@
                     (Key("back", "B") :> <<"go", "1", "R">>) @@
                     (Key("go", "B") :> <<"fwd", "1", "R">>) @@
                     (Key("fwd", "1") :> <<"done", "B", "S">>)]

Catalogue == {Incrementer, Looper, Shuttle}

\* the start state carries the rules; halt is the start state itself or "done"
GenericDescriptions ==
    [blank : {"B"}, start : {"add"}, halt : States, transitions : TablesOf("add")]

\* generic machines with at most one rule that do not halt at once
SmallDescriptions ==
    {d \in GenericDescriptions :
        Cardinality(DOMAIN d.transitions) <= 1 /\ d.halt # d.start}

\* TuringMachine.__init__: the description is stored verbatim
TuringMachine(description) ==
    [blank |-> description.blank, transitions |-> description.transitions,
     start |-> description.start, halt |-> description.halt]

\* ------------------------------------------------------------------ Init
\* a call of run before its first loop test (lines 65-67), on the tape that
\* parse_tape builds from the call's input string; a call not in `called`
\* is never made
RunEntry(called) ==
    /\ tape = [r \in Runs |-> parse_tape(input_str[r], utm.blank)]
    /\ head = [r \in Runs |-> 0]
    /\ state = [r \in Runs |-> utm.start]
    /\ steps = [r \in Runs |-> 0]
    /\ pc = [r \in Runs |-> IF r \in called THEN "while" ELSE "idle"]
    /\ stdout = [r \in Runs |-> <<>>]
    /\ report = [r \in Runs |-> <<>>]

\* main: one call, generic machine
InitMain ==
    /\ utm \in {TuringMachine(d) : d \in GenericDescriptions}
    /\ input_str \in [Runs -> Strings(MaxLen)]
    /\ max_steps \in [Runs -> 0 .. MaxBudget]
    /\ trace \in [Runs -> BOOLEAN]
    /\ input_str[2] = "" /\ max_steps[2] = 0 /\ trace[2] = FALSE
    /\ RunEntry({1})

\* main: one call, catalogue machine on a unary input
InitCatalogue ==
    /\ utm \in {TuringMachine(d) : d \in Catalogue}
    /\ input_str \in [Runs -> {Ones(n) : n \in 0 .. MaxUnary}]
    /\ max_steps \in [Runs -> 0 .. (MaxUnary + 2)]
    /\ trace \in [Runs -> BOOLEAN]
    /\ input_str[2] = "" /\ max_steps[2] = 0 /\ trace[2] = FALSE
    /\ RunEntry({1})

\* two calls on one engine, each with its own tape; the calls run the same
\* code, so they are numbered in the order of their budgets
InitPair ==
    /\ utm \in {TuringMachine(d) : d \in Catalogue \cup SmallDescriptions}
    /\ input_str \in [Runs -> Strings(MaxPairLen)]
    /\ max_steps \in [Runs -> 0 .. MaxPairBudget]
    /\ max_steps[1] <= max_steps[2]
    /\ trace \in [Runs -> BOOLEAN]
    /\ RunEntry(Runs)

Init == InitMain \/ InitCatalogue \/ InitPair

\* --------------------------------------------------------------- actions
\* mutant: the symbol is read at position 0 instead of at the head
Symbol_AtZero(r) == tape_get(tape[r], 0, utm.blank)

\* mutant: every call reads the tape of the first call
Symbol_SharedTape(r) == tape_get(tape[1], head[r], utm.blank)

\* symbol = tape.get(head, self.blank)
Symbol(r) == tape_get(tape[r], head[r], utm.blank)

\* mutant: steps <= max_steps
LoopGuard_OffByOne(st, n, halt, budget) == st # halt /\ n <= budget

\* mutant: the loop stops one step short of the budget
LoopGuard_StopsEarly(st, n, halt, budget) == st # halt /\ n + 1 < budget

\* mutant: the halt state is not tested
LoopGuard_NoHaltTest(st, n, halt, budget) == n < budget

\* while state != self.halt and steps < max_steps
LoopGuard(st, n, halt, budget) == st # halt /\ n < budget

\* mutant: the membership test before the lookup is missing
Undefined_NeverTested(r) == FALSE

\* mutant: the table is searched for the symbol alone
Undefined_SymbolOnly(r) == Symbol(r) \notin DOMAIN utm.transitions

\* key not in self.transitions
Undefined(r) == Key(state[r], Symbol(r)) \notin DOMAIN utm.transitions

\* mutant: the line is printed after the transition was applied
TraceLine_AfterApply(r, tr) ==
    [step |-> steps[r] + 1, state |-> tr[1], head |-> Move(head[r], tr[3]),
     read |-> tr[2], write |-> tr[2], move |-> tr[3], next |-> tr[1]]

\* self.transitions[key] of line 74 yields a value only for a key of the
\* table; for any other key it raises KeyError and the iteration has no
\* successor
HasEntry(r) == Key(state[r], Symbol(r)) \in DOMAIN utm.transitions

\* the trace line printed before the transition is applied (lines 76-79)
TraceLine(r, tr) ==
    [step |-> steps[r], state |-> state[r], head |-> head[r], read |-> Symbol(r),
     write |-> tr[2], move |-> tr[3], next |-> tr[1]]

\* the three lines main prints for the returned (final_tape, steps, final_state)
Report(r) == <<state[r], steps[r], tape_to_string(tape[r], utm.blank)>>

\* mutant: every call writes to the tape of the first call
Step_WritesFirstTape(r) ==
    /\ pc[r] = "while"
    /\ LoopGuard(state[r], steps[r], utm.halt, max_steps[r])
    /\ ~Undefined(r)
    /\ HasEntry(r)
    /\ LET tr == utm.transitions[Key(state[r], Symbol(r))]
           next_state == tr[1]
           write_symbol == tr[2]
           move == tr[3]
       IN  /\ stdout' = IF trace[r]
                        THEN [stdout EXCEPT ![r] = Append(@, TraceLine(r, tr))]
                        ELSE stdout
           /\ tape' = [tape EXCEPT ![1] = Write(@, head[r], write_symbol, utm.blank)]
           /\ head' = [head EXCEPT ![r] = Move(@, move)]
           /\ state' = [state EXCEPT ![r] = next_state]
           /\ steps' = [steps EXCEPT ![r] = @ + 1]
    /\ UNCHANGED <<utm, input_str, max_steps, trace, pc, report>>

\* mutant: the write sits inside the `if trace` block
Step_WritesOnlyIfTraced(r) ==
    /\ pc[r] = "while"
    /\ LoopGuard(state[r], steps[r], utm.halt, max_steps[r])
    /\ ~Undefined(r)
    /\ HasEntry(r)
    /\ LET tr == utm.transitions[Key(state[r], Symbol(r))]
           next_state == tr[1]
           write_symbol == tr[2]
           move == tr[3]
       IN  /\ stdout' = IF trace[r]
                        THEN [stdout EXCEPT ![r] = Append(@, TraceLine(r, tr))]
                        ELSE stdout
           /\ tape' = IF trace[r]
                      THEN [tape EXCEPT ![r] = Write(@, head[r], write_symbol, utm.blank)]
                      ELSE tape
           /\ head' = [head EXCEPT ![r] = Move(@, move)]
           /\ state' = [state EXCEPT ![r] = next_state]
           /\ steps' = [steps EXCEPT ![r] = @ + 1]
    /\ UNCHANGED <<utm, input_str, max_steps, trace, pc, report>>

\* mutant: the head moves before the symbol is written
Step_MovesBeforeWrite(r) ==
    /\ pc[r] = "while"
    /\ LoopGuard(state[r], steps[r], utm.halt, max_steps[r])
    /\ ~Undefined(r)
    /\ HasEntry(r)
    /\ LET tr == utm.transitions[Key(state[r], Symbol(r))]
           next_state == tr[1]
           write_symbol == tr[2]
           move == tr[3]
       IN  /\ stdout' = IF trace[r]
                        THEN [stdout EXCEPT ![r] = Append(@, TraceLine(r, tr))]
                        ELSE stdout
           /\ tape' = [tape EXCEPT ![r] = Write(@, Move(head[r], move), write_symbol, utm.blank)]
           /\ head' = [head EXCEPT ![r] = Move(@, move)]
           /\ state' = [state EXCEPT ![r] = next_state]
           /\ steps' = [steps EXCEPT ![r] = @ + 1]
    /\ UNCHANGED <<utm, input_str, max_steps, trace, pc, report>>

\* one loop iteration that applies a transition (lines 68-94)
Step(r) ==
    /\ pc[r] = "while"
    /\ LoopGuard(state[r], steps[r], utm.halt, max_steps[r])
    /\ ~Undefined(r)
    /\ HasEntry(r)
    /\ LET tr == utm.transitions[Key(state[r], Symbol(r))]
           next_state == tr[1]
           write_symbol == tr[2]
           move == tr[3]
       IN  /\ stdout' = IF trace[r]
                        THEN [stdout EXCEPT ![r] = Append(@, TraceLine(r, tr))]
                        ELSE stdout
           /\ tape' = [tape EXCEPT ![r] = Write(@, head[r], write_symbol, utm.blank)]
           /\ head' = [head EXCEPT ![r] = Move(@, move)]
           /\ state' = [state EXCEPT ![r] = next_state]
           /\ steps' = [steps EXCEPT ![r] = @ + 1]
    /\ UNCHANGED <<utm, input_str, max_steps, trace, pc, report>>

\* mutant: the iteration that breaks is counted as a step
Break_ConsumesStep(r) ==
    /\ pc[r] = "while"
    /\ LoopGuard(state[r], steps[r], utm.halt, max_steps[r])
    /\ Undefined(r)
    /\ pc' = [pc EXCEPT ![r] = "break"]
    /\ steps' = [steps EXCEPT ![r] = @ + 1]
    /\ report' = [report EXCEPT ![r] =
                     <<state[r], steps[r] + 1, tape_to_string(tape[r], utm.blank)>>]
    /\ UNCHANGED <<utm, input_str, max_steps, trace, tape, head, state, stdout>>

\* mutant: the premature halt enters the halt state
Break_SetsHalt(r) ==
    /\ pc[r] = "while"
    /\ LoopGuard(state[r], steps[r], utm.halt, max_steps[r])
    /\ Undefined(r)
    /\ pc' = [pc EXCEPT ![r] = "break"]
    /\ state' = [state EXCEPT ![r] = utm.halt]
    /\ report' = [report EXCEPT ![r] =
                     <<utm.halt, steps[r], tape_to_string(tape[r], utm.blank)>>]
    /\ UNCHANGED <<utm, input_str, max_steps, trace, tape, head, steps, stdout>>

\* mutant: the lookup comes before the loop test (a do-while loop)
Break_BeforeLoopTest(r) ==
    /\ pc[r] = "while"
    /\ Undefined(r)
    /\ pc' = [pc EXCEPT ![r] = "break"]
    /\ report' = [report EXCEPT ![r] = Report(r)]
    /\ UNCHANGED <<utm, input_str, max_steps, trace, tape, head, state, steps, stdout>>

\* loop iteration with no defined transition: break, return, the caller
\* prints the result (lines 68-73, 95, 136-138)
Break(r) ==
    /\ pc[r] = "while"
    /\ LoopGuard(state[r], steps[r], utm.halt, max_steps[r])
    /\ Undefined(r)
    /\ pc' = [pc EXCEPT ![r] = "break"]
    /\ report' = [report EXCEPT ![r] = Report(r)]
    /\ UNCHANGED <<utm, input_str, max_steps, trace, tape, head, state, steps, stdout>>

\* the loop test fails: return, the caller prints the result
\* (lines 68, 95, 136-138)
Return(r) ==
    /\ pc[r] = "while"
    /\ ~LoopGuard(state[r], steps[r], utm.halt, max_steps[r])
    /\ pc' = [pc EXCEPT ![r] = "return"]
    /\ report' = [report EXCEPT ![r] = Report(r)]
    /\ UNCHANGED <<utm, input_str, max_steps, trace, tape, head, state, steps, stdout>>

Next == \E r \in Runs : Step(r) \/ Break(r) \/ Return(r)

Spec == Init /\ [][Next]_vars

\* the loop of a call runs to its exit: run has no suspension point
LiveSpec == Spec /\ \A r \in Runs : WF_vars(Step(r) \/ Break(r) \/ Return(r))

RECURSIVE RunFrom(_, _, _, _, _, _)
\* the loop of run executed by itself from (tape t, head h, state st, steps n):
\* the (tape, steps, state) it returns
RunFrom(m, t, h, st, n, budget) ==
    IF ~LoopGuard(st, n, m.halt, budget) THEN <<t, n, st>>
    ELSE LET symbol == tape_get(t, h, m.blank)
             key == Key(st, symbol)
         IN  IF key \notin DOMAIN m.transitions THEN <<t, n, st>>
             ELSE LET tr == m.transitions[key]
                  IN  RunFrom(m, Write(t, h, tr[2], m.blank), Move(h, tr[3]),
                              tr[1], n + 1, budget)

\* m.run(t, max_steps = budget) with no other call in progress
RunAlone(m, t, budget) == RunFrom(m, t, 0, m.start, 0, budget)

\* ------------------------------------------------------------ vocabulary
Called(r) == pc[r] # "idle"
\* run has returned (tape, steps, state)
Returned(r) == pc[r] \in {"break", "return"}
\* the tape the call was given
InitialTape(r) == parse_tape(input_str[r], utm.blank)

\* how a returned call left the loop, as the code took it
ExitedByBreak(r) == pc[r] = "break"
ExitedByHalt(r) == pc[r] = "return" /\ state[r] = utm.halt
ExitedByBudget(r) == pc[r] = "return" /\ state[r] # utm.halt

\* what a caller infers from the returned (steps, state), halt and max_steps alone
Classify(n, st, halt, budget) ==
    IF st = halt THEN "halt"
    ELSE IF n = budget THEN "budget"
    ELSE "undefined"

SameInputs(r1, r2) ==
    /\ Called(r1) /\ Called(r2)
    /\ input_str[r1] = input_str[r2]
    /\ max_steps[r1] = max_steps[r2]

SameConfig(r1, r2) ==
    /\ state[r1] = state[r2]
    /\ head[r1] = head[r2]
    /\ tape[r1] = tape[r2]
    /\ steps[r1] = steps[r2]

SameResult(r1, r2) ==
    /\ tape[r1] = tape[r2]
    /\ steps[r1] = steps[r2]
    /\ state[r1] = state[r2]

\* the last trace line of a traced call
LastLine(r) == stdout[r][Len(stdout[r])]

\* ----------------------------------------------------------------- claims

\* C1: a returned call left the loop in exactly one of three ways (normal
\* halt, budget exceeded with steps = max_steps and state # halt, undefined
\* transition), and the way is the one the caller infers from the returned
\* (steps, state) compared with halt and max_steps.
C1_ExitDistinguishable ==
    \A r \in Runs : Returned(r) =>
        /\ ExitedByHalt(r) <=>
               Classify(steps[r], state[r], utm.halt, max_steps[r]) = "halt"
        /\ ExitedByBudget(r) <=>
               Classify(steps[r], state[r], utm.halt, max_steps[r]) = "budget"
        /\ ExitedByBreak(r) <=>
               Classify(steps[r], state[r], utm.halt, max_steps[r]) = "undefined"
        /\ ExitedByBreak(r) => Undefined(r)
        /\ ExitedByBudget(r) => steps[r] = max_steps[r]

\* one call ended on an undefined transition after applying a step, the other
\* ran out of budget
C1_Witness ==
    /\ ExitedByBreak(1) /\ steps[1] > 0
    /\ ExitedByBudget(2) /\ steps[2] > 0

\* C2: two calls with the same machine, initial tape and max_steps have the
\* same (state, head, tape) whenever they have applied the same number of
\* steps, and return the same (tape, steps, state).
C2_Deterministic ==
    \A r1, r2 \in Runs : SameInputs(r1, r2) =>
        /\ steps[r1] = steps[r2] => SameConfig(r1, r2)
        /\ (Returned(r1) /\ Returned(r2)) => SameResult(r1, r2) /\ pc[r1] = pc[r2]

\* both calls returned after two steps on a tape they changed
C2_Witness ==
    /\ SameInputs(1, 2)
    /\ Returned(1) /\ Returned(2)
    /\ steps[1] = 2
    /\ tape[1] # InitialTape(1)

\* C3: for two calls on the same initial tape with budgets m1 <= m2: if the m1
\* call ends by normal halt or undefined transition, the m2 call returns the
\* same (tape, steps, state); otherwise the m1 call returns steps = m1 with
\* state # halt and its (tape, state) is the configuration of the m2 call
\* after m1 steps.
C3_BudgetMonotone ==
    \A r1, r2 \in Runs :
        (/\ Called(r1) /\ Called(r2)
         /\ input_str[r1] = input_str[r2]
         /\ max_steps[r1] <= max_steps[r2]
         /\ Returned(r1)) =>
            IF ExitedByHalt(r1) \/ ExitedByBreak(r1)
            THEN Returned(r2) => SameResult(r1, r2)
            ELSE /\ steps[r1] = max_steps[r1]
                 /\ state[r1] # utm.halt
                 /\ steps[r2] = max_steps[r1] =>
                        tape[r2] = tape[r1] /\ state[r2] = state[r1]

\* the smaller budget ran out, the larger one let the call go on and halt
C3_Witness ==
    /\ input_str[1] = input_str[2]
    /\ max_steps[1] < max_steps[2]
    /\ ExitedByBudget(1) /\ steps[1] > 0
    /\ ExitedByHalt(2) /\ steps[2] > steps[1]

\* C4: no entry of a tape holds the blank symbol, initially and after any
\* number of applied transitions.
C4_NoBlankStored ==
    \A r \in Runs : \A p \in DOMAIN tape[r] : tape[r][p] # utm.blank

\* a traced call has just written blank over a non-blank cell
C4_Witness ==
    \E r \in Runs :
        /\ stdout[r] # <<>>
        /\ LastLine(r).step = steps[r] - 1
        /\ LastLine(r).write = utm.blank
        /\ LastLine(r).read # utm.blank
        /\ LastLine(r).head \notin DOMAIN tape[r]
        /\ tape[r] # EmptyTape

\* C5: every call returns, and the number of applied transitions stays within
\* 0 .. max_steps all along (checked under LiveSpec: the loop keeps running).
C5_BoundedAndReturns ==
    /\ [](\A r \in Runs : 0 <= steps[r] /\ steps[r] <= max_steps[r])
    /\ <>(\A r \in Runs : Called(r) => Returned(r))

\* the machine that loops forever was stopped by its budget
C5_Witness ==
    /\ utm = TuringMachine(Looper)
    /\ ExitedByBudget(1)
    /\ steps[1] = max_steps[1]
    /\ max_steps[1] >= MaxUnary

\* the iteration of call r that finds no transition: it ends the call
BreakTaken(r) == pc[r] = "while" /\ pc'[r] = "break"

\* C6: an iteration that finds no table entry for (state, symbol under head)
\* stops the call with state, steps, tape and head as they were, state # halt
\* and steps < max_steps; with no transition for (start, blank) and an empty
\* tape the result is steps 0, state start, empty tape.
C6_UndefinedTransition ==
    /\ [][\A r \in Runs : BreakTaken(r) =>
            /\ Undefined(r)
            /\ state'[r] = state[r] /\ steps'[r] = steps[r]
            /\ tape'[r] = tape[r] /\ head'[r] = head[r]
            /\ state'[r] # utm.halt /\ steps'[r] < max_steps[r]
            /\ report'[r] = <<state[r], steps[r], tape_to_string(tape[r], utm.blank)>>]_vars
    /\ [](\A r \in Runs :
            (/\ Returned(r)
             /\ Key(utm.start, utm.blank) \notin DOMAIN utm.transitions
             /\ InitialTape(r) = EmptyTape) =>
                /\ steps[r] = 0 /\ state[r] = utm.start /\ tape[r] = EmptyTape
                /\ (utm.start # utm.halt /\ max_steps[r] > 0) => ExitedByBreak(r))

\* a call stopped on an undefined transition after moving off a changed tape
C6_Witness ==
    \E r \in Runs :
        /\ ExitedByBreak(r)
        /\ steps[r] >= 2
        /\ head[r] # 0
        /\ tape[r] # InitialTape(r)
        /\ state[r] # utm.start

\* the blank symbol occurs in the string s
Occurs(blank, s) == \E i \in 0 .. (Len(s) - 1) : CharAt(s, i) = blank

\* C7: for a non-empty input string s in which blank does not occur, the tape
\* parse_tape builds from s renders back to s with tape_to_string; a call that
\* returns without applying a step reports s as its final tape.
C7_RoundTrip ==
    \A r \in Runs :
        (/\ Called(r)
         /\ input_str[r] # ""
         /\ ~Occurs(utm.blank, input_str[r])) =>
            /\ tape_to_string(parse_tape(input_str[r], utm.blank), utm.blank) = input_str[r]
            /\ steps[r] = 0 => tape_to_string(tape[r], utm.blank) = input_str[r]
            /\ (Returned(r) /\ steps[r] = 0) => report[r][3] = input_str[r]

\* a call on a blank-free string of the longest length returned at once
C7_Witness ==
    \E r \in Runs :
        /\ Returned(r) /\ steps[r] = 0
        /\ Len(input_str[r]) >= 2
        /\ ~Occurs(utm.blank, input_str[r])
        /\ report[r][3] = input_str[r]

\* call r applies a transition in this step
StepTaken(r) == steps'[r] = steps[r] + 1

\* the table entry call r is about to apply
Entry(r) == utm.transitions[Key(state[r], Symbol(r))]

\* C8: after a transition writes blank at the head position p, a read at p
\* gives blank, p is absent from the tape mapping and every other position
\* of the mapping is unchanged.
C8_BlankWrite ==
    [][\A r \in Runs : (StepTaken(r) /\ Entry(r)[2] = utm.blank) =>
            /\ tape_get(tape'[r], head[r], utm.blank) = utm.blank
            /\ head[r] \notin DOMAIN tape'[r]
            /\ DOMAIN tape'[r] = (DOMAIN tape[r]) \ {head[r]}
            /\ \A q \in DOMAIN tape'[r] : tape'[r][q] = tape[r][q]]_vars

\* blank was written over an occupied negative position, other cells remain
C8_Witness ==
    \E r \in Runs :
        /\ stdout[r] # <<>>
        /\ LastLine(r).step = steps[r] - 1
        /\ LastLine(r).write = utm.blank
        /\ LastLine(r).read # utm.blank
        /\ LastLine(r).head < 0
        /\ tape[r] # EmptyTape

\* C9: the unary incrementer on input 1^n with max_steps > n returns state
\* done, steps n + 1 and a tape that renders as 1^(n+1).
C9_Incrementer ==
    \A r \in Runs : \A n \in 0 .. (MaxUnary + 1) :
        (/\ utm = TuringMachine(Incrementer)
         /\ input_str[r] = Ones(n)
         /\ max_steps[r] > n
         /\ Returned(r)) =>
            /\ state[r] = "done"
            /\ steps[r] = n + 1
            /\ tape_to_string(tape[r], utm.blank) = Ones(n + 1)
            /\ report[r] = <<"done", n + 1, Ones(n + 1)>>

\* input "111" gave "1111", done, 4 steps
C9_Witness ==
    /\ utm = TuringMachine(Incrementer)
    /\ input_str[1] = "111"
    /\ Returned(1)
    /\ report[1] = <<"done", 4, "1111">>

\* C10: when start = halt a call applies no transition, looks none up and
\* prints no trace line: steps stays 0, state is halt, the tape is the initial
\* tape, and the call returns through the loop test.
C10_ImmediateHalt ==
    \A r \in Runs : (Called(r) /\ utm.start = utm.halt) =>
        /\ steps[r] = 0
        /\ state[r] = utm.halt
        /\ head[r] = 0
        /\ tape[r] = InitialTape(r)
        /\ stdout[r] = <<>>
        /\ ~ExitedByBreak(r)
        /\ Returned(r) =>
               report[r] = <<utm.halt, 0, tape_to_string(InitialTape(r), utm.blank)>>

\* a traced call with budget left and a rule for (start, symbol at 0)
\* returned at once because start = halt
C10_Witness ==
    \E r \in Runs :
        /\ utm.start = utm.halt
        /\ Returned(r)
        /\ trace[r] /\ max_steps[r] > 0
        /\ InitialTape(r) # EmptyTape
        /\ Key(utm.start, tape_get(InitialTape(r), 0, utm.blank)) \in DOMAIN utm.transitions

\* C11: a call that leaves the loop neither in the halt state nor on an
\* undefined transition returns steps = max_steps with state # halt; the
\* machine loop:B -> (loop, B, R) on an empty tape with max_steps = n >= 1
\* returns steps n, state loop and an empty tape.
C11_BudgetExhaustion ==
    \A r \in Runs :
        /\ (Returned(r) /\ state[r] # utm.halt /\ ~ExitedByBreak(r)) =>
               steps[r] = max_steps[r]
        /\ (/\ utm = TuringMachine(Looper)
            /\ InitialTape(r) = EmptyTape
            /\ max_steps[r] >= 1
            /\ Returned(r)) =>
               /\ steps[r] = max_steps[r]
               /\ state[r] = "loop"
               /\ tape[r] = EmptyTape
               /\ report[r] = <<"loop", max_steps[r], "">>

\* the looper on an empty tape with max_steps = 5 reported loop, 5, ""
C11_Witness ==
    /\ utm = TuringMachine(Looper)
    /\ input_str[1] = ""
    /\ max_steps[1] = MaxUnary + 2
    /\ head[1] = MaxUnary + 2
    /\ report[1] = <<"loop", MaxUnary + 2, "">>

\* C12: a traced call prints exactly one line per applied transition and none
\* for the iteration that ends on an undefined transition; line i carries step
\* index i - 1 and the state, head and read symbol as they are before the
\* write, the move and the state update; the number of lines is steps.
C12_TraceOrder ==
    /\ [](\A r \in Runs : trace[r] =>
            /\ Len(stdout[r]) = steps[r]
            /\ \A i \in 1 .. Len(stdout[r]) : stdout[r][i].step = i - 1)
    /\ [][\A r \in Runs : trace[r] =>
            /\ StepTaken(r) =>
                  /\ Len(stdout'[r]) = Len(stdout[r]) + 1
                  /\ SubSeq(stdout'[r], 1, Len(stdout[r])) = stdout[r]
                  /\ stdout'[r][Len(stdout'[r])] =
                        [step |-> steps[r], state |-> state[r], head |-> head[r],
                         read |-> tape_get(tape[r], head[r], utm.blank),
                         write |-> Entry(r)[2], move |-> Entry(r)[3],
                         next |-> Entry(r)[1]]
            /\ ~StepTaken(r) => stdout'[r] = stdout[r]]_vars

\* a traced call printed lines with the head moved and the state changed in
\* between, then it stopped on an undefined transition
C12_Witness ==
    \E r \in Runs :
        /\ trace[r]
        /\ ExitedByBreak(r)
        /\ Len(stdout[r]) >= 2
        /\ stdout[r][1].write # stdout[r][1].read
        /\ stdout[r][2].head # 0
        /\ stdout[r][2].state # stdout[r][1].state

\* C13: two interleaved calls on one engine never change the transition table
\* or start/halt/blank, a step of one call leaves the other call's tape, head,
\* state and steps alone, and each call returns the (tape, steps, state) it
\* returns when it runs alone.
C13_SharedEngine ==
    /\ [][utm' = utm]_vars
    /\ [][\A r, q \in Runs : (StepTaken(r) /\ q # r) =>
            /\ tape'[q] = tape[q] /\ head'[q] = head[q]
            /\ state'[q] = state[q] /\ steps'[q] = steps[q]]_vars
    /\ [](\A r \in Runs : (Called(1) /\ Called(2) /\ Returned(r)) =>
            <<tape[r], steps[r], state[r]>> =
                RunAlone(utm, InitialTape(r), max_steps[r]))

\* both calls returned after applying steps, from different tapes to
\* different tapes
C13_Witness ==
    /\ Returned(1) /\ Returned(2)
    /\ steps[1] >= 2 /\ steps[2] >= 1
    /\ InitialTape(1) # InitialTape(2)
    /\ tape[1] # tape[2]
    /\ tape[1] # InitialTape(1)
    /\ tape[2] # InitialTape(2)

\* C14: a call never ends in an error: in the loop some iteration or the
\* return is always possible (no lookup or pop raises), and a returned call
\* left by one of the three exits and reported (state, steps, rendered tape).
C14_NoError ==
    \A r \in Runs :
        /\ pc[r] = "while" => ENABLED (Step(r) \/ Break(r) \/ Return(r))
        /\ Returned(r) =>
              /\ ExitedByHalt(r) \/ ExitedByBudget(r) \/ ExitedByBreak(r)
              /\ report[r] = <<state[r], steps[r], tape_to_string(tape[r], utm.blank)>>
              /\ steps[r] \in 0 .. max_steps[r]

\* a traced call popped an absent position (blank written over blank), went
\* on and returned on an undefined transition
C14_Witness ==
    \E r \in Runs :
        /\ ExitedByBreak(r)
        /\ stdout[r] # <<>>
        /\ \E i \in 1 .. Len(stdout[r]) :
              stdout[r][i].read = utm.blank /\ stdout[r][i].write = utm.blank

\* C15: when the transition that brings steps to max_steps enters the halt
\* state, the call leaves through the loop test with state = halt and
\* steps = max_steps, which is a normal halt and not budget exceeded; with
\* max_steps = 0 and start # halt the call returns steps 0 and state start
\* through the loop test, also when (start, symbol at 0) has no table entry.
C15_HaltOnBudget ==
    /\ [](\A r \in Runs : (state[r] = utm.halt /\ steps[r] = max_steps[r]) =>
            /\ ~ExitedByBreak(r) /\ ~ExitedByBudget(r)
            /\ pc[r] = "while" => ~ENABLED (Step(r) \/ Break(r))
            /\ Returned(r) =>
                  /\ ExitedByHalt(r)
                  /\ Classify(steps[r], state[r], utm.halt, max_steps[r]) = "halt"
                  /\ report[r][1] = utm.halt /\ report[r][2] = max_steps[r])
    /\ [](\A r \in Runs : (Called(r) /\ max_steps[r] = 0 /\ utm.start # utm.halt) =>
            /\ steps[r] = 0 /\ state[r] = utm.start /\ tape[r] = InitialTape(r)
            /\ pc[r] = "while" => ~ENABLED (Step(r) \/ Break(r))
            /\ Returned(r) =>
                  /\ ExitedByBudget(r)
                  /\ Classify(steps[r], state[r], utm.halt, max_steps[r]) = "budget")
    /\ [][\A r \in Runs :
            (StepTaken(r) /\ steps'[r] = max_steps[r] /\ Entry(r)[1] = utm.halt) =>
                state'[r] = utm.halt /\ pc'[r] = "while"]_vars

\* one call halted with its last allowed step; the other, with
\* max_steps = 0 and no entry for (start, symbol at 0), returned at once
C15_Witness ==
    /\ ExitedByHalt(2) /\ steps[2] = max_steps[2] /\ max_steps[2] >= 1
    /\ Returned(1) /\ max_steps[1] = 0 /\ utm.start # utm.halt
    /\ Key(utm.start, tape_get(InitialTape(1), 0, utm.blank)) \notin DOMAIN utm.transitions

\* call r changes its tape, head, state or step count in this step
Changed(r) ==
    <<tape'[r], head'[r], state'[r], steps'[r]>> # <<tape[r], head[r], state[r], steps[r]>>

\* the head displacement of a direction
Delta(direction) ==
    CASE direction = "L" -> -1
      [] direction = "R" -> 1
      [] direction = "S" -> 0

\* C16: an applied transition looks up (state, symbol read at the head before
\* the write), writes write_symbol at that head position, leaves every other
\* position unchanged, moves the head by -1 for L, +1 for R, 0 for S, sets
\* state to next_state and adds exactly 1 to steps.
C16_TransitionEffect ==
    [][\A r \in Runs : Changed(r) =>
          LET p == head[r]
              symbol == tape_get(tape[r], p, utm.blank)
              key == Key(state[r], symbol)
          IN  /\ key \in DOMAIN utm.transitions
              /\ tape_get(tape'[r], p, utm.blank) = utm.transitions[key][2]
              /\ \A q \in ((DOMAIN tape[r]) \cup (DOMAIN tape'[r])) \ {p} :
                    /\ q \in DOMAIN tape[r] /\ q \in DOMAIN tape'[r]
                    /\ tape'[r][q] = tape[r][q]
              /\ head'[r] = head[r] + Delta(utm.transitions[key][3])
              /\ state'[r] = utm.transitions[key][1]
              /\ steps'[r] = steps[r] + 1]_vars

\* away from position 0, a traced call overwrote a symbol with another one
\* next to an occupied cell and moved left
C16_Witness ==
    \E r \in Runs :
        /\ stdout[r] # <<>>
        /\ LastLine(r).step = steps[r] - 1
        /\ LastLine(r).head # 0
        /\ LastLine(r).move = "L"
        /\ LastLine(r).write # LastLine(r).read
        /\ head[r] = LastLine(r).head - 1
        /\ Cardinality(DOMAIN tape[r]) >= 2

\* C17: tape_to_string of a tape is "" when no position is occupied, and
\* otherwise the string of length max - min + 1 whose i-th character is the
\* symbol read at min + i, gaps read as blank; its first and last characters
\* are not blank; rendering at the return leaves the tape as it is.
C17_Render ==
    /\ [](\A r \in Runs :
            LET t == tape[r]
                s == tape_to_string(t, utm.blank)
            IN  /\ (DOMAIN t = {}) => s = ""
                /\ (DOMAIN t # {}) =>
                      \E lo, hi \in DOMAIN t :
                          /\ \A q \in DOMAIN t : lo <= q /\ q <= hi
                          /\ Len(s) = hi - lo + 1
                          /\ \A i \in 0 .. (hi - lo) :
                                CharAt(s, i) = tape_get(t, lo + i, utm.blank)
                          /\ CharAt(s, 0) # utm.blank
                          /\ CharAt(s, Len(s) - 1) # utm.blank
                /\ Returned(r) => report[r][3] = s)
    /\ [][\A r \in Runs : pc'[r] # pc[r] => tape'[r] = tape[r]]_vars

\* a returned call rendered a tape that starts at a negative position and
\* has a gap
C17_Witness ==
    \E r \in Runs :
        /\ Returned(r)
        /\ DOMAIN tape[r] # {}
        /\ SetMin(DOMAIN tape[r]) < 0
        /\ \E q \in SetMin(DOMAIN tape[r]) .. SetMax(DOMAIN tape[r]) :
              q \notin DOMAIN tape[r]
        /\ Len(report[r][3]) >= 3

\* C18: a traced call and an untraced call with the same machine, initial
\* tape and max_steps go through the same configurations and return the same
\* (tape, steps, state), reached through the same exit.
C18_TraceIndependent ==
    \A r1, r2 \in Runs :
        (SameInputs(r1, r2) /\ trace[r1] /\ ~trace[r2]) =>
            /\ steps[r1] = steps[r2] =>
                  /\ state[r1] = state[r2]
                  /\ head[r1] = head[r2]
                  /\ tape[r1] = tape[r2]
            /\ (Returned(r1) /\ Returned(r2)) =>
                  /\ <<tape[r1], steps[r1], state[r1]>> = <<tape[r2], steps[r2], state[r2]>>
                  /\ pc[r1] = pc[r2]
                  /\ report[r1] = report[r2]

\* the traced call printed its two lines, the untraced one printed none, and
\* both returned the same changed tape
C18_Witness ==
    /\ SameInputs(1, 2)
    /\ trace[1] /\ ~trace[2]
    /\ Returned(1) /\ Returned(2)
    /\ Len(stdout[1]) = 2 /\ stdout[2] = <<>>
    /\ tape[1] # InitialTape(1)
    /\ tape[2] = tape[1]

\* the positions whose content differs from the initial tape of call r
ChangedCells(r) ==
    {q \in (DOMAIN tape[r]) \cup (DOMAIN InitialTape(r)) :
        tape_get(tape[r], q, utm.blank) # tape_get(InitialTape(r), q, utm.blank)}

\* C19: the head stays within steps of position 0, and every position whose
\* content differs from the initial tape lies within steps - 1 of position 0
\* (none differs at steps = 0); after the return that is within max_steps - 1.
C19_HeadAndCellsBounded ==
    \A r \in Runs :
        /\ -steps[r] <= head[r] /\ head[r] <= steps[r]
        /\ steps[r] = 0 => ChangedCells(r) = {}
        /\ \A q \in ChangedCells(r) :
              /\ -(steps[r] - 1) <= q /\ q <= steps[r] - 1
              /\ -(max_steps[r] - 1) <= q /\ q <= max_steps[r] - 1

\* a call went left with every step and changed the cell it just left
C19_Witness ==
    \E r \in Runs :
        /\ steps[r] >= 2
        /\ head[r] = -steps[r]
        /\ -(steps[r] - 1) \in ChangedCells(r)
        /\ Returned(r)

TypeOK ==
    /\ \A r \in Runs : pc[r] \in {"idle", "while", "break", "return"}
    /\ \A r \in Runs : steps[r] \in Nat
====
